---- MODULE Spec2Model ----
(***************************************************************************)
(* Model of create_subplots (hw1/src/my_funcs.py): group a table by one    *)
(* column, aggregate another column with named functions, and build a      *)
(* figure of stacked panels, one bar trace per aggregation function.       *)
(*                                                                         *)
(* Strings are sequences of one-character strings, so that lower() and     *)
(* capitalize() are computed character by character.  A cell of the        *)
(* grouping column is <<k>> for the value k and <<>> for a missing value    *)
(* (NaN/None).  Values of the operate column are integers.                 *)
(***************************************************************************)
EXTENDS Integers, Sequences, FiniteSets

VARIABLES df, group_column, operate_column, is_numeric, subplot_titles,
          agg_funcs, operated_df, fig, i, pc, ret

vars == <<df, group_column, operate_column, is_numeric, subplot_titles,
          agg_funcs, operated_df, fig, i, pc, ret>>

inputs == <<df, group_column, operate_column, is_numeric, subplot_titles,
            agg_funcs>>

(* ------------------------------ bounds --------------------------------- *)
MaxRows == 3
MaxFuncs == 2

GroupVals == {1, 2}
Vals == {1, 2}
NA == <<>>
GroupCells == {<<k>> : k \in GroupVals} \cup {NA}

(* Column names the calls are made with: <<group_column, operate_column>>. *)
ColumnNames ==
    { << <<"G","r","p">>, <<"V","a","l">> >>,
      << <<"g">>, <<"p","r","i","c","e">> >> }

(* The keyword arguments offered: result name -> aggregation function.     *)
AggChoices ==
    { [name |-> <<"c","n","t">>, fn |-> "count"],
      [name |-> <<"s","U","m">>, fn |-> "sum"],
      [name |-> <<"F","s","t">>, fn |-> "first"] }

SeqsUpTo(S, n) == UNION { [1..k -> S] : k \in 0..n }

Injective(f) == \A a, b \in DOMAIN f : f[a] = f[b] => a = b

(* agg_funcs keyword arguments: distinct keys, in call order, non-empty.   *)
AggMappings ==
    { m \in SeqsUpTo(AggChoices, MaxFuncs) : Len(m) >= 1 /\ Injective(m) }

Tables == SeqsUpTo([g : GroupCells, v : Vals], MaxRows)

Title(k) == <<"t", "0", "1", "2", "3", "4">>[k + 1]

(* ------------------------------ strings -------------------------------- *)
LowerCase == <<"a","b","c","d","e","f","g","h","i","j","k","l","m",
               "n","o","p","q","r","s","t","u","v","w","x","y","z">>
UpperCase == <<"A","B","C","D","E","F","G","H","I","J","K","L","M",
               "N","O","P","Q","R","S","T","U","V","W","X","Y","Z">>

ToLower(c) ==
    IF \E k \in 1..26 : UpperCase[k] = c
    THEN LowerCase[CHOOSE k \in 1..26 : UpperCase[k] = c]
    ELSE c

ToUpper(c) ==
    IF \E k \in 1..26 : LowerCase[k] = c
    THEN UpperCase[CHOOSE k \in 1..26 : LowerCase[k] = c]
    ELSE c

(* str.lower() *)
StrLower(s) == [k \in 1..Len(s) |-> ToLower(s[k])]

(* str.capitalize(): first character upper-cased, the rest lower-cased.     *)
StrCapitalize(s) ==
    [k \in 1..Len(s) |-> IF k = 1 THEN ToUpper(s[k]) ELSE ToLower(s[k])]

(* Variant: the value column name is not lower-cased.                      *)
YAxisTitleKeepCase(func_name, op_col) ==
    StrCapitalize(StrLower(func_name)) \o <<" ">> \o op_col

(* f'{func_name.lower().capitalize()} {operate_column.lower()}'            *)
YAxisTitle(func_name, op_col) ==
    StrCapitalize(StrLower(func_name)) \o <<" ">> \o StrLower(op_col)

(* title_text=group_column *)
XAxisTitle(grp_col) == grp_col

(* --------------------------- table library ----------------------------- *)
RECURSIVE SortedSeq(_)
SortedSeq(S) ==
    IF S = {} THEN <<>>
    ELSE LET m == CHOOSE a \in S : \A b \in S : a <= b
         IN <<m>> \o SortedSeq(S \ {m})

RECURSIVE SumSeq(_)
SumSeq(s) == IF s = <<>> THEN 0 ELSE Head(s) + SumSeq(Tail(s))

(* The aggregation functions applied to the values of one group.           *)
ApplyAgg(fn, vals) ==
    CASE fn = "count" -> Len(vals)
      [] fn = "sum"   -> SumSeq(vals)
      [] fn = "first" -> vals[1]

(* Variant: dropna=False, the missing value is a group key of its own.     *)
GroupKeysKeepNA(t) ==
    SortedSeq({ IF t[r].g = NA THEN 0 ELSE t[r].g[1] : r \in 1..Len(t) })

(* Group keys of groupby(group_column) with the library defaults           *)
(* sort=True, dropna=True: distinct non-missing values, ascending.         *)
GroupKeys(t) ==
    SortedSeq({ t[r].g[1] : r \in { q \in 1..Len(t) : t[q].g # NA } })

GroupValues(t, k) ==
    LET Test(row) == row.g = <<k>>
        sel == SelectSeq(t, Test)
    IN [r \in 1..Len(sel) |-> sel[r].v]

(* df.groupby(group_column)[operate_column].agg(...).reset_index()         *)
(* A table is its column names and its rows (tuples in column order).      *)
GroupByAgg(t, grp_col, aggs) ==
    LET keys == GroupKeys(t)
    IN [kind    |-> "table",
        columns |-> <<grp_col>> \o [c \in 1..Len(aggs) |-> aggs[c].name],
        rows    |-> [r \in 1..Len(keys) |->
                       <<keys[r]>> \o
                       [c \in 1..Len(aggs) |->
                          ApplyAgg(aggs[c].fn, GroupValues(t, keys[r]))]]]

ColIndex(tbl, name) == CHOOSE c \in 1..Len(tbl.columns) : tbl.columns[c] = name

(* tbl[name] *)
Column(tbl, name) ==
    [r \in 1..Len(tbl.rows) |-> tbl.rows[r][ColIndex(tbl, name)]]

Perms(n) == { p \in [1..n -> 1..n] : Injective(p) }

(* tbl.sort_values(by=by), ascending.                                      *)
SortValuesAscending(tbl, by) ==
    LET c == ColIndex(tbl, by)
        n == Len(tbl.rows)
    IN { [tbl EXCEPT !.rows = [r \in 1..n |-> tbl.rows[p[r]]]] :
           p \in { q \in Perms(n) :
                     \A r \in 1..(n - 1) :
                        tbl.rows[q[r]][c] <= tbl.rows[q[r + 1]][c] } }

(* tbl.sort_values(by=by, ascending=False) with the default kind           *)
(* ('quicksort'), which the library documents as not stable: the result is *)
(* any arrangement of the rows in which the by-column does not increase.   *)
SortValuesDescending(tbl, by) ==
    LET c == ColIndex(tbl, by)
        n == Len(tbl.rows)
    IN { [tbl EXCEPT !.rows = [r \in 1..n |-> tbl.rows[p[r]]]] :
           p \in { q \in Perms(n) :
                     \A r \in 1..(n - 1) :
                        tbl.rows[q[r]][c] >= tbl.rows[q[r + 1]][c] } }

(* Variant: inplace=True, the receiver takes the sorted rows.              *)
ReceiverAfterSortInplace(tbl, sorted) == sorted

(* sort_values is called without inplace=True: the receiver is unchanged.  *)
ReceiverAfterSort(tbl, sorted) == tbl

(* --------------------------- chart library ----------------------------- *)
NoTitle == <<>>

(* make_subplots(rows=n, cols=1, subplot_titles=titles)                    *)
MakeSubplots(n, titles) ==
    [kind   |-> "figure",
     rows   |-> n,
     cols   |-> 1,
     data   |-> <<>>,
     titles |-> titles,
     xaxis  |-> [r \in 1..n |-> NoTitle],
     yaxis  |-> [r \in 1..n |-> NoTitle]]

(* subplot_graph(x=..., y=...) *)
Trace(x, y) == [x |-> x, y |-> y]

(* Variant: a trace without bars is not added.                             *)
AddTraceSkipEmpty(f, trace, row, col) ==
    IF trace.x = <<>> THEN f
    ELSE [f EXCEPT !.data = Append(@, [x |-> trace.x, y |-> trace.y,
                                      row |-> row, col |-> col])]

(* fig.add_trace(trace, row=row, col=col) *)
AddTrace(f, trace, row, col) ==
    [f EXCEPT !.data = Append(@, [x |-> trace.x, y |-> trace.y,
                                  row |-> row, col |-> col])]

(* fig.update_xaxes(title_text=text, row=row, col=1) *)
UpdateXaxes(f, text, row) == [f EXCEPT !.xaxis[row] = text]

(* fig.update_yaxes(title_text=text, row=row, col=1) *)
UpdateYaxes(f, text, row) == [f EXCEPT !.yaxis[row] = text]

(* ---------------------------- create_subplots -------------------------- *)
EmptyTable == [kind |-> "table", columns |-> <<>>, rows |-> <<>>]
EmptyFigure == MakeSubplots(0, <<>>)

(* Variant: the keys visited last to first.                                *)
FuncNameAtReversed(aggs, k) == aggs[Len(aggs) - k].name

(* enumerate(agg_funcs.keys()): the name visited at 0-based index k.       *)
FuncNameAt(aggs, k) == aggs[k + 1].name

(* Variant: every trace placed in the first panel.                         *)
PanelRowFirst(k) == 1

(* row=i+1: the row of the panel the k-th (0-based) trace is placed in.    *)
PanelRow(k) == k + 1

(* Variants: sorted whatever is_numeric is; sorted by the first function's *)
(* column; sorted ascending.                                               *)
SortedForPanelAlways(tbl, numeric, by) == SortValuesDescending(tbl, by)

SortedForPanelFirstFunc(tbl, numeric, by) ==
    IF ~numeric THEN SortValuesDescending(tbl, tbl.columns[2]) ELSE {tbl}

SortedForPanelAscending(tbl, numeric, by) ==
    IF ~numeric THEN SortValuesAscending(tbl, by) ELSE {tbl}

(* The candidates for operated_df_by_func (lines 69-72).                   *)
SortedForPanel(tbl, numeric, by) ==
    IF ~numeric THEN SortValuesDescending(tbl, by) ELSE {tbl}

(* Variant: the two results in the other order.                            *)
ReturnValueSwapped(f, tbl) == <<tbl, f>>

(* The value of the return statement.                                      *)
ReturnValue(f, tbl) == <<f, tbl>>

Init ==
    /\ df \in Tables
    /\ \E names \in ColumnNames :
          /\ group_column = names[1]
          /\ operate_column = names[2]
    /\ is_numeric \in BOOLEAN
    /\ agg_funcs \in AggMappings
    /\ subplot_titles \in { <<>>, [k \in 1..Len(agg_funcs) |-> Title(k)] }
    /\ operated_df = EmptyTable
    /\ fig = EmptyFigure
    /\ i = 0
    /\ pc = "start"
    /\ ret = <<>>

(* lines 52-57 *)
GroupAggregate ==
    /\ pc = "start"
    /\ operated_df' = GroupByAgg(df, group_column, agg_funcs)
    /\ pc' = "make_subplots"
    /\ UNCHANGED <<inputs, fig, i, ret>>

(* lines 60-64 *)
CreateFigure ==
    /\ pc = "make_subplots"
    /\ fig' = MakeSubplots(Len(agg_funcs), subplot_titles)
    /\ i' = 0
    /\ pc' = "loop"
    /\ UNCHANGED <<inputs, operated_df, ret>>

(* lines 67-88: one iteration of the loop over agg_funcs.keys()            *)
LoopBody ==
    /\ pc = "loop"
    /\ i < Len(agg_funcs)
    /\ LET func_name == FuncNameAt(agg_funcs, i)
       IN \E by_func \in SortedForPanel(operated_df, is_numeric, func_name) :
            /\ fig' = UpdateYaxes(
                        UpdateXaxes(
                          AddTrace(fig,
                                   Trace(Column(by_func, group_column),
                                         Column(by_func, func_name)),
                                   PanelRow(i), 1),
                          XAxisTitle(group_column), PanelRow(i)),
                        YAxisTitle(func_name, operate_column), PanelRow(i))
            /\ operated_df' = IF ~is_numeric
                              THEN ReceiverAfterSort(operated_df, by_func)
                              ELSE operated_df
    /\ i' = i + 1
    /\ UNCHANGED <<inputs, pc, ret>>

(* line 90 *)
Return ==
    /\ pc = "loop"
    /\ i = Len(agg_funcs)
    /\ ret' = ReturnValue(fig, operated_df)
    /\ pc' = "done"
    /\ UNCHANGED <<inputs, operated_df, fig, i>>

Next == GroupAggregate \/ CreateFigure \/ LoopBody \/ Return

Spec == Init /\ [][Next]_vars

(* ------------------------- vocabulary of the claims -------------------- *)
NumFuncs == Len(agg_funcs)

Started == pc \in {"loop", "done"}

(* The traces of the figure that lie in panel (row r, column 1).           *)
PanelTraces(r) ==
    { k \in 1..Len(fig.data) : fig.data[k].row = r /\ fig.data[k].col = 1 }

NonIncreasing(s) == \A r \in 1..(Len(s) - 1) : s[r] >= s[r + 1]

StrictlyAscending(s) == \A r \in 1..(Len(s) - 1) : s[r] < s[r + 1]

(* The bars <<x, y>> of trace t rearrange the pairs of columns xs and ys.  *)
PermutationOfPairs(t, xs, ys) ==
    /\ Len(t.x) = Len(xs)
    /\ Len(t.y) = Len(xs)
    /\ \E p \in Perms(Len(xs)) :
          \A r \in 1..Len(xs) : t.x[r] = xs[p[r]] /\ t.y[r] = ys[p[r]]

(* Only the first character upper-cased, the rest of the name kept.        *)
FirstLetterCapitalized(s) ==
    [k \in 1..Len(s) |-> IF k = 1 THEN ToUpper(s[k]) ELSE s[k]]

HasUpper(s) == \E k \in 2..Len(s) : s[k] # ToLower(s[k])

ExpectedColumns ==
    /\ Len(operated_df.columns) = NumFuncs + 1
    /\ operated_df.columns[1] = group_column
    /\ \A c \in 1..NumFuncs : operated_df.columns[c + 1] = agg_funcs[c].name

(* ------------------------------- C1 ------------------------------------ *)
(* C1 as stated: once the grouping step has run, the derived table has     *)
(* exactly one row for each distinct value of the grouping column that     *)
(* occurs in the input (a missing value being one of them), and its        *)
(* columns are the grouping column followed by one column per function.    *)
C1_OneRowPerDistinctValue ==
    pc # "start" =>
       /\ Len(operated_df.rows) = Cardinality({ df[r].g : r \in 1..Len(df) })
       /\ ExpectedColumns

(* C1 amended: the derived table has exactly one row for each distinct     *)
(* non-missing value of the grouping column (rows whose grouping value is  *)
(* missing contribute no row), no row for any other value, and its columns *)
(* are the grouping column followed by one column per function name.       *)
C1_OneRowPerNonMissingValue ==
    pc # "start" =>
       /\ \A r \in 1..Len(df) :
             df[r].g # NA =>
                Cardinality({ q \in 1..Len(operated_df.rows) :
                                <<operated_df.rows[q][1]>> = df[r].g }) = 1
       /\ \A q \in 1..Len(operated_df.rows) :
             \E r \in 1..Len(df) : df[r].g = <<operated_df.rows[q][1]>>
       /\ ExpectedColumns

C1_Witness ==
    /\ pc = "done"
    /\ \E r \in 1..Len(df) : df[r].g = NA
    /\ Len(operated_df.rows) = 2
    /\ Len(df) = 3
    /\ NumFuncs = 2

(* ------------------------------- C2 ------------------------------------ *)
(* C2: the figure has N rows and 1 column of panels; after k iterations of *)
(* the loop it holds k traces, one in each of the panels 1..k, and on      *)
(* return it holds N traces, one per panel, whatever is_numeric and        *)
(* subplot_titles are.                                                     *)
C2_PanelAndTraceCount ==
    Started =>
       /\ fig.rows = NumFuncs
       /\ fig.cols = 1
       /\ Len(fig.data) = i
       /\ \A r \in 1..fig.rows :
             Cardinality(PanelTraces(r)) = IF r <= i THEN 1 ELSE 0
       /\ pc = "done" => Len(fig.data) = NumFuncs

C2_Witness ==
    /\ pc = "done"
    /\ NumFuncs = 2
    /\ Len(fig.data) = 2
    /\ subplot_titles # <<>>
    /\ ~is_numeric
    /\ Len(operated_df.rows) = 2

(* ------------------------------- C3 ------------------------------------ *)
(* C3: when is_numeric is False, the trace of every filled panel k has     *)
(* non-increasing y values, and its bars are a rearrangement of the pairs  *)
(* (group value, result of the k-th function) of the derived table.        *)
C3_SortedByOwnResult ==
    (Started /\ ~is_numeric) =>
       \A r \in 1..fig.rows : \A k \in PanelTraces(r) :
          /\ NonIncreasing(fig.data[k].y)
          /\ PermutationOfPairs(fig.data[k],
                                Column(operated_df, group_column),
                                Column(operated_df, agg_funcs[r].name))

(* Two panels whose bars are in different group order. *)
C3_Witness ==
    /\ pc = "done"
    /\ ~is_numeric
    /\ NumFuncs = 2
    /\ Len(operated_df.rows) = 2
    /\ fig.data[1].x # fig.data[2].x
    /\ fig.data[1].y[1] > fig.data[1].y[2]
    /\ fig.data[2].y[1] > fig.data[2].y[2]

(* ------------------------------- C4 ------------------------------------ *)
(* C4: when is_numeric is True, every trace lists on x the group values in *)
(* the row order of the derived table, which is ascending, and on y the    *)
(* results of its function in that same row order (no sort by result).     *)
C4_NaturalGroupOrder ==
    (Started /\ is_numeric) =>
       \A r \in 1..fig.rows : \A k \in PanelTraces(r) :
          /\ fig.data[k].x = Column(operated_df, group_column)
          /\ StrictlyAscending(fig.data[k].x)
          /\ fig.data[k].y = Column(operated_df, agg_funcs[r].name)

(* A panel whose results increase along x: a sort would have moved it.     *)
C4_Witness ==
    /\ pc = "done"
    /\ is_numeric
    /\ Len(operated_df.rows) = 2
    /\ \E k \in 1..Len(fig.data) : fig.data[k].y[1] < fig.data[k].y[2]

(* ------------------------------- C5 ------------------------------------ *)
(* C5: the k-th trace added to the figure lies in the panel at row k and   *)
(* carries the results of the k-th supplied aggregation function, each bar *)
(* holding the result of its own group.                                    *)
C5_PanelsInMappingOrder ==
    Started =>
       \A k \in 1..Len(fig.data) :
          /\ fig.data[k].row = k
          /\ fig.data[k].col = 1
          /\ Len(fig.data[k].y) = Len(operated_df.rows)
          /\ \A b \in 1..Len(fig.data[k].y) :
                \E q \in 1..Len(operated_df.rows) :
                   /\ operated_df.rows[q][1] = fig.data[k].x[b]
                   /\ operated_df.rows[q][k + 1] = fig.data[k].y[b]

(* Two functions that give different results for some group. *)
C5_Witness ==
    /\ pc = "done"
    /\ NumFuncs = 2
    /\ Len(operated_df.rows) >= 1
    /\ \E q \in 1..Len(operated_df.rows) :
          operated_df.rows[q][2] # operated_df.rows[q][3]

(* ------------------------------- C6 ------------------------------------ *)
(* C6: the returned value has two elements, the figure first and the       *)
(* derived table second.                                                   *)
C6_ReturnsFigureThenTable ==
    pc = "done" =>
       /\ Len(ret) = 2
       /\ ret[1].kind = "figure"
       /\ ret[1] = fig
       /\ ret[2].kind = "table"
       /\ ret[2] = operated_df

C6_Witness ==
    /\ pc = "done"
    /\ Len(ret) = 2
    /\ Len(operated_df.rows) >= 1
    /\ Len(fig.data) >= 1

(* ------------------------------- C7 ------------------------------------ *)
(* C7 as stated: for every filled panel the x-axis title is the grouping   *)
(* column name as passed, and the y-axis title is the result name with its *)
(* first letter capitalized (the rest kept), a space, and the value column *)
(* name as passed.                                                         *)
C7_TitlesKeepCase ==
    Started =>
       \A r \in 1..i :
          /\ fig.xaxis[r] = group_column
          /\ fig.yaxis[r] = FirstLetterCapitalized(agg_funcs[r].name)
                              \o <<" ">> \o operate_column

(* C7 amended: the x-axis title is the grouping column name as passed; the *)
(* y-axis title is the result name with its first letter upper-cased and   *)
(* all its other letters lower-cased, a single space, and the value column *)
(* name with all its letters lower-cased.                                  *)
C7_TitlesLowerCased ==
    Started =>
       \A r \in 1..i :
          LET name == agg_funcs[r].name
              y    == fig.yaxis[r]
              n    == Len(name)
          IN /\ fig.xaxis[r] = group_column
             /\ Len(y) = n + 1 + Len(operate_column)
             /\ y[1] = ToUpper(name[1])
             /\ \A k \in 2..n : y[k] = ToLower(name[k])
             /\ y[n + 1] = " "
             /\ \A k \in 1..Len(operate_column) :
                   y[n + 1 + k] = ToLower(operate_column[k])

(* A result name and a value column name with upper-case letters.          *)
C7_Witness ==
    /\ pc = "done"
    /\ \E r \in 1..NumFuncs : HasUpper(agg_funcs[r].name)
    /\ operate_column # StrLower(operate_column)
    /\ group_column # StrLower(group_column)

(* ------------------------------- C8 ------------------------------------ *)
(* C8: a call with one aggregation function on a table without rows        *)
(* returns a derived table with zero rows and a figure with one panel      *)
(* holding one trace with empty x and y.                                   *)
C8_EmptyTableOnePanel ==
    (pc = "done" /\ df = <<>> /\ NumFuncs = 1) =>
       /\ ret[2].rows = <<>>
       /\ ret[1].rows = 1
       /\ ret[1].cols = 1
       /\ Len(ret[1].data) = 1
       /\ ret[1].data[1].row = 1
       /\ ret[1].data[1].col = 1
       /\ ret[1].data[1].x = <<>>
       /\ ret[1].data[1].y = <<>>

C8_Witness ==
    /\ pc = "done"
    /\ df = <<>>
    /\ NumFuncs = 1
    /\ ~is_numeric

(* ------------------------------- C9 ------------------------------------ *)
(* C9 as stated: when is_numeric is False, two groups with equal result in *)
(* a panel appear there in their order in the derived table (ascending     *)
(* group value).                                                           *)
C9_TiesKeepTableOrder ==
    (Started /\ ~is_numeric) =>
       \A k \in 1..Len(fig.data) :
          \A a, b \in 1..Len(fig.data[k].y) :
             (a < b /\ fig.data[k].y[a] = fig.data[k].y[b])
                => fig.data[k].x[a] < fig.data[k].x[b]

(* C9 amended: when is_numeric is False, of two groups with different      *)
(* results in a panel the one with the larger result comes first, and      *)
(* every group of the derived table appears exactly once; the relative     *)
(* order of groups with equal result is not determined.                    *)
C9_OnlyDistinctResultsOrdered ==
    (Started /\ ~is_numeric) =>
       \A k \in 1..Len(fig.data) :
          /\ \A a, b \in 1..Len(fig.data[k].y) :
                (a < b /\ fig.data[k].y[a] # fig.data[k].y[b])
                   => fig.data[k].y[a] > fig.data[k].y[b]
          /\ \A q \in 1..Len(operated_df.rows) :
                Cardinality({ a \in 1..Len(fig.data[k].x) :
                                fig.data[k].x[a] = operated_df.rows[q][1] }) = 1

(* A panel with two tied groups, shown against the table order, next to    *)
(* a panel whose two groups have different results.                        *)
C9_Witness ==
    /\ Started
    /\ ~is_numeric
    /\ Len(fig.data) = 2
    /\ Len(fig.data[1].y) = 2
    /\ fig.data[1].y[1] = fig.data[1].y[2]
    /\ fig.data[1].x[1] > fig.data[1].x[2]
    /\ fig.data[2].y[1] > fig.data[2].y[2]

(* ------------------------------- C10 ----------------------------------- *)
(* C10: from the grouping step on, no step changes the derived table, a    *)
(* trace once added is never changed by a later iteration, and the table   *)
(* returned is that unchanged table.                                       *)
C10_SortLeavesTableAlone ==
    [][pc # "start" =>
         /\ operated_df' = operated_df
         /\ StrictlyAscending(Column(operated_df', group_column))
         /\ \A k \in 1..Len(fig.data) :
               pc = "loop" => (Len(fig'.data) >= k /\ fig'.data[k] = fig.data[k])
         /\ pc' = "done" => ret'[2] = operated_df]_vars

(* A returned table in ascending group order next to a panel whose bars    *)
(* were put in another order by the sort.                                  *)
C10_Witness ==
    /\ pc = "done"
    /\ ~is_numeric
    /\ Len(operated_df.rows) = 2
    /\ ret[2] = operated_df
    /\ \E k \in 1..Len(fig.data) :
          fig.data[k].x # Column(operated_df, group_column)

====
